---- MODULE Spec2Model ----
(***************************************************************************)
(* clplot: the anchor-relative text-grid canvas (renderer/plot.rs), the    *)
(* shapes and viewboxes drawn on it (renderer/shapes.rs) and the grid      *)
(* point type (data.rs).                                                   *)
(*                                                                         *)
(* Every Plot operation queues terminal commands on stdout and flushes     *)
(* them.  An operation is modelled as the stream it writes (a sequence of  *)
(* tokens: one per cursor command, one per printed character), and the     *)
(* terminal as an interpreter of such streams over a grid of cells.  Text  *)
(* is a sequence of one-character strings.                                 *)
(***************************************************************************)
EXTENDS Integers, Sequences, FiniteSets, TLC

\* ------------------------------------------------------------------ bounds
\* Largest canvas width and height, longest text handed to put_str, the
\* denominator of the fractions handed to derive_point_dec, and the number of
\* calls made on a Plot after Plot::new.
MaxW == 2
MaxH == 2
MaxLen == 2
FracDen == 2
MaxCalls == 2

\* u16 coordinates: values are taken modulo 2^16 in a release build.
U16 == 65536
MantissaBits == 24

\* Characters of the texts, symbols of the shapes, prior terminal content.
TextChars == {"a", " ", "\n"}
Symbols == {"*"}
\* The symbol lines and rectangles are drawn with.
Strokes == {"#"}
Fills == {" ", "."}
\* Domain values of a ScaledViewBox and float coordinates of its points.  The
\* values and every quotient by a non-zero one of them are exact in f32.
DomVals == {-1, 0, 1}

\* The terminal has one row more than the tallest canvas (the canvas main.rs
\* makes by default is one row shorter than the terminal), and the column
\* right of x_max exists.
TermRows == MaxH + 1
TermCols == MaxW + 2

VARIABLES profile, plot, term, before, calls, last, out, result

vars == <<profile, plot, term, before, calls, last, out, result>>

Min(a, b) == IF a <= b THEN a ELSE b
Max(a, b) == IF a >= b THEN a ELSE b
Abs(a) == IF a >= 0 THEN a ELSE -a

\* ------------------------------------------------------------------ data.rs
PVec2(x, y) == [x |-> x, y |-> y]

\* What a call returns: a point, or a panic (ok = FALSE).
Ok(pt) == [ok |-> TRUE, pt |-> pt]
Panic == [ok |-> FALSE, pt |-> PVec2(0, 0)]

\* ------------------------------------------------------- terminal commands
Restore == [op |-> "RestorePosition", n |-> 0, ch |-> ""]
Save == [op |-> "SavePosition", n |-> 0, ch |-> ""]
MoveUp(n) == [op |-> "MoveUp", n |-> n, ch |-> ""]
MoveDown(n) == [op |-> "MoveDown", n |-> n, ch |-> ""]
MoveRight(n) == [op |-> "MoveRight", n |-> n, ch |-> ""]
Ch(c) == [op |-> "Print", n |-> 0, ch |-> c]
\* Print(s) writes the characters of s; Print("") writes nothing.
PrintStr(s) == [i \in 1..Len(s) |-> Ch(s[i])]

Rows == 0..(TermRows - 1)
Cols == 0..(TermCols - 1)

BlankRow == [c \in Cols |-> " "]

\* The cursor is <<row, column>>.  After a print on the last column the
\* cursor waits to wrap: its column is TermCols until the next command.
\* A line feed: down one row and back to column 0; on the last row the
\* screen scrolls instead and the saved position stays where it is.
LineFeed(t) ==
    IF t.cur[1] < TermRows - 1
    THEN [t EXCEPT !.cur = <<t.cur[1] + 1, 0>>]
    ELSE [t EXCEPT !.cur = <<t.cur[1], 0>>,
                   !.cells = [r \in Rows |-> IF r < TermRows - 1
                                             THEN t.cells[r + 1] ELSE BlankRow],
                   !.written = {<<w[1] - 1, w[2]>> : w \in {v \in t.written : v[1] > 0}}]

\* A print: a cursor waiting to wrap goes to column 0 of the next row first.
PutChar(t, c) ==
    LET u == IF t.cur[2] = TermCols THEN LineFeed(t) ELSE t
    IN  [u EXCEPT !.cells[u.cur[1]][u.cur[2]] = c,
                  !.written = u.written \cup {u.cur},
                  !.cur = <<u.cur[1], u.cur[2] + 1>>]

\* The distance of a cursor move: crossterm writes the count as it is
\* (ESC [ n A / B / C) and the terminal takes a count of 0 as 1.
MoveCount(n) == Max(n, 1)
\* The column a cursor move starts from: a cursor waiting to wrap is on the
\* last column.
MoveCol(t) == Min(t.cur[2], TermCols - 1)

TermStep(t, k) ==
    CASE k.op = "RestorePosition" -> [t EXCEPT !.cur = t.saved]
      [] k.op = "SavePosition" -> [t EXCEPT !.saved = t.cur]
      [] k.op = "MoveUp" -> [t EXCEPT !.cur = <<Max(0, t.cur[1] - MoveCount(k.n)), MoveCol(t)>>]
      [] k.op = "MoveDown" ->
             [t EXCEPT !.cur = <<Min(TermRows - 1, t.cur[1] + MoveCount(k.n)), MoveCol(t)>>]
      [] k.op = "MoveRight" ->
             [t EXCEPT !.cur = <<t.cur[1], Min(TermCols - 1, MoveCol(t) + MoveCount(k.n))>>]
      [] OTHER -> IF k.ch = "\n" THEN LineFeed(t) ELSE PutChar(t, k.ch)

RECURSIVE TermRun(_, _)
TermRun(t, s) == IF s = <<>> THEN t ELSE TermRun(TermStep(t, Head(s)), Tail(s))

\* The terminal flushes one operation's stream; written collects the cells
\* that operation printed on.
Flush(t, s) == TermRun([t EXCEPT !.written = {}], s)

\* ------------------------------------------------------------ str helpers
RECURSIVE repeat(_, _)
repeat(s, n) == IF n <= 0 THEN <<>> ELSE s \o repeat(s, n - 1)

\* content.split("\n"): the lines between line breaks, the empty ones too.
RECURSIVE split(_)
split(content) ==
    IF \A i \in 1..Len(content) : content[i] # "\n"
    THEN <<content>>
    ELSE LET i == CHOOSE j \in 1..Len(content) :
                      content[j] = "\n" /\ \A k \in 1..(j - 1) : content[k] # "\n"
         IN  <<SubSeq(content, 1, i - 1)>> \o split(SubSeq(content, i + 1, Len(content)))

is_whitespace(c) == c \in {" ", "\n"}

\* ---------------------------------------------------------------- plot.rs
clip(input, max_len) ==
    IF Len(input) % U16 <= max_len THEN input ELSE SubSeq(input, 1, max_len)

clamp(n, lower, upper) == Max(lower, Min(n, upper))

clamp_point(point, x_min, x_max, y_min, y_max) ==
    PVec2(clamp(point.x, x_min, x_max), clamp(point.y, y_min, y_max))

clamp_to_plot(p, point) == clamp_point(point, p.x_min, p.x_max, p.y_min, p.y_max)

\* The Plot value that new and resize return.
Plot(width, height) ==
    [width |-> width, height |-> height,
     x_min |-> 0, x_max |-> width, y_min |-> 0, y_max |-> height]

new(width, height) == PrintStr(repeat(<<"\n">>, height)) \o <<Save>>

resize(p, width, height) ==
    <<Restore, MoveUp(p.height)>> \o PrintStr(repeat(<<"\n">>, height)) \o <<Save>>

clear(p) ==
    <<Restore, MoveUp(p.height)>>
        \o PrintStr(repeat(repeat(<<" ">>, p.width) \o <<"\n">>, p.height))

\* put measuring rows up from the anchor (MoveUp(actual.y)).
put_rows_from_anchor(p, character, point) ==
    LET actual == clamp_to_plot(p, point)
    IN  <<Restore, MoveUp(actual.y), MoveRight(actual.x), Ch(character)>>

put(p, character, point) ==
    LET actual == clamp_to_plot(p, point)
    IN  <<Restore, MoveUp(p.height - actual.y), MoveRight(actual.x), Ch(character)>>

RECURSIVE put_str_lines(_, _, _)
put_str_lines(p, actual, lines) ==
    IF lines = <<>> THEN <<>>
    ELSE PrintStr(clip(Head(lines), p.width - actual.x))
             \o <<Ch("\n"), MoveRight(actual.x)>>
             \o put_str_lines(p, actual, Tail(lines))

\* put_str without the move to the start column before the first line.
put_str_no_column(p, content, start) ==
    LET actual == clamp_to_plot(p, start)
    IN  <<Restore, MoveUp(p.height - actual.y)>>
            \o put_str_lines(p, actual, split(content))

put_str(p, content, start) ==
    LET actual == clamp_to_plot(p, start)
    IN  <<Restore, MoveUp(p.height - actual.y), MoveRight(actual.x)>>
            \o put_str_lines(p, actual, split(content))

\* finish saving the position it leaves the cursor on.
finish_saving(p) == <<Restore, MoveDown(1), Save>>

finish(p) == <<Restore, MoveDown(1)>>

\* The first index of s whose character satisfies (ws = TRUE) or fails
\* (ws = FALSE) is_whitespace; 0 when there is none (find's None).
find(s, ws) ==
    IF \E i \in 1..Len(s) : is_whitespace(s[i]) = ws
    THEN CHOOSE i \in 1..Len(s) :
             /\ is_whitespace(s[i]) = ws
             /\ \A j \in 1..(i - 1) : is_whitespace(s[j]) # ws
    ELSE 0

\* consume_line printing the whole line, whitespace included.
consume_line_opaque(line) == PrintStr(line)

\* consume_line forgetting the text that no whitespace follows.
consume_line_drop_tail(line) ==
    IF find(line, TRUE) = 0 THEN <<>> ELSE PrintStr(SubSeq(line, 1, find(line, TRUE) - 1))

RECURSIVE consume_line(_)
consume_line(line) ==
    IF Len(line) = 0 THEN <<>>
    ELSE LET i == find(line, TRUE)
         IN  IF i = 0 THEN PrintStr(line)
             ELSE LET left == SubSeq(line, 1, i - 1)
                      right == SubSeq(line, i, Len(line))
                      j == find(right, FALSE)
                  IN  PrintStr(left)
                          \o (IF j = 0 THEN <<>>
                              ELSE <<MoveRight((j - 1) % U16)>>
                                       \o consume_line(SubSeq(right, j, Len(right))))

RECURSIVE put_str_transparent_lines(_, _, _)
put_str_transparent_lines(p, actual, lines) ==
    IF lines = <<>> THEN <<>>
    ELSE consume_line(clip(Head(lines), p.width - actual.x))
             \o <<Ch("\n"), MoveRight(actual.x)>>
             \o put_str_transparent_lines(p, actual, Tail(lines))

put_str_transparent(p, content, start) ==
    LET actual == clamp_to_plot(p, start)
    IN  <<Restore, MoveUp(p.height - actual.y), MoveRight(actual.x)>>
            \o put_str_transparent_lines(p, actual, split(content))

\* The two builds: debug panics on integer overflow, release wraps.
Builds == {"debug", "release"}

\* a - b on u16 in a build, -1 standing for the panic.
sub16(build, a, b) ==
    IF a >= b THEN a - b ELSE IF build = "debug" THEN -1 ELSE (a - b) % U16

\* a + b on u16 in a build, -1 standing for the panic.
u16_add(build, a, b) ==
    IF a + b < U16 THEN a + b ELSE IF build = "debug" THEN -1 ELSE (a + b) % U16

\* f32::round of the fraction n / FracDen (n >= 0): half away from zero;
\* the cast to u16 keeps the value, which is small.
round(n) == (2 * n + FracDen) \div (2 * FracDen)

derive_point_dec(p, x, y) == clamp_to_plot(p, PVec2(round(x), round(y)))

origin_bl(build, p, x, y) ==
    LET v == sub16(build, p.height, y)
    IN  IF v < 0 THEN Panic ELSE Ok(clamp_to_plot(p, PVec2(x, v)))

origin_br(build, p, x, y) ==
    LET u == sub16(build, p.width, x)
        v == sub16(build, p.height, y)
    IN  IF u < 0 \/ v < 0 THEN Panic ELSE Ok(clamp_to_plot(p, PVec2(u, v)))

\* -------------------------------------------------------------- shapes.rs
\* f32 values: a fraction n / d (d > 0), or NaN, or an infinity.
Fin(n, d) == [k |-> "fin", n |-> n, d |-> d]
NaN == [k |-> "nan", n |-> 0, d |-> 1]
PInf == [k |-> "pinf", n |-> 0, d |-> 1]
NInf == [k |-> "ninf", n |-> 0, d |-> 1]

\* Rust's saturating cast f32 as u16 of f * s, s a u16 turned f32.
mul_as_u16(f, s) ==
    CASE f.k = "fin" -> IF f.n * s <= 0 THEN 0 ELSE Min((f.n * s) \div f.d, U16 - 1)
      [] f.k = "pinf" -> IF s = 0 THEN 0 ELSE U16 - 1
      [] OTHER -> 0

svb_clamp(n, lower, upper) == Max(lower, Min(n, upper))

svb_clamp_to_plot(vb, point) ==
    [x |-> svb_clamp(point.x, vb.x_min, vb.x_max),
     y |-> svb_clamp(point.y, vb.y_min, vb.y_max)]

\* (v - lo) / hi - lo, as the source writes it.
scale_axis(v, lo, hi) ==
    IF hi = 0
    THEN (IF v - lo = 0 THEN NaN ELSE IF v - lo > 0 THEN PInf ELSE NInf)
    ELSE IF hi > 0 THEN Fin((v - lo) - lo * hi, hi)
    ELSE Fin(lo * hi - (v - lo), -hi)

scale_to_dec(vb, point) ==
    [x |-> scale_axis(point.x, vb.x_min, vb.x_max),
     y |-> scale_axis(point.y, vb.y_min, vb.y_max)]

dec_to_pp(build, vb, point) ==
    LET x == u16_add(build, mul_as_u16(point.x, vb.size.x), vb.position.x)
        y == u16_add(build, mul_as_u16(point.y, vb.size.y), vb.position.y)
    IN  IF x < 0 \/ y < 0 THEN Panic ELSE Ok(PVec2(x, y))

svb_translate_to_plot(build, vb, point) ==
    dec_to_pp(build, vb, scale_to_dec(vb, svb_clamp_to_plot(vb, point)))

\* A draw that panicked before it wrote anything.
NoDraw == [ok |-> FALSE, stream |-> <<>>]
\* A draw followed by another: a panic ends the sequence.
Then(d1, d2) ==
    IF d1.ok THEN [ok |-> d2.ok, stream |-> d1.stream \o d2.stream] ELSE d1

\* v as i16, v a u16.
as_i16(v) == IF v >= U16 \div 2 THEN v - U16 ELSE v

\* a - b on i16 in a build: [ok, v].
i16_sub(build, a, b) ==
    IF a - b \in (-(U16 \div 2))..(U16 \div 2 - 1) THEN [ok |-> TRUE, v |-> a - b]
    ELSE IF build = "debug" THEN [ok |-> FALSE, v |-> 0]
    ELSE [ok |-> TRUE, v |-> ((a - b + U16 \div 2) % U16) - U16 \div 2]

\* f32: the values of Line::draw's general case are a sign and a magnitude
\* i + f / 2^k, 0 <= f < 2^k, where 2^-k is the unit in the last place of
\* step_x: the coordinates are whole, and sums and roundings of multiples
\* of 2^-k are multiples of 2^-k.  (f is kept below 2^30: |dx / dy| >= 2^-7.)
F32(neg, i, f) == [neg |-> neg, i |-> i, f |-> f]

RECURSIVE bit_len(_)
bit_len(n) == IF n = 0 THEN 0 ELSE 1 + bit_len(n \div 2)

\* Round the magnitude i + f / 2^k to MantissaBits significant bits, ties to
\* even.
f32_round(k, i, f) ==
    LET x == (IF i > 0 THEN bit_len(i) + k ELSE bit_len(f)) - MantissaBits
    IN  IF x <= 0 THEN [i |-> i, f |-> f]
        ELSE LET unit == 2^x
                 low == f % unit
                 odd == IF x < k THEN (f \div unit) % 2 = 1 ELSE i % 2 = 1
                 up == 2 * low > unit \/ (2 * low = unit /\ odd)
                 g == f - low + (IF up THEN unit ELSE 0)
             IN  IF g = 2^k THEN [i |-> i + 1, f |-> 0] ELSE [i |-> i, f |-> g]

\* The least j with n * 2^j >= d (n >= 1).
RECURSIVE lead(_, _)
lead(n, d) == IF n >= d THEN 0 ELSE 1 + lead(2 * n, d)

\* k binary digits of r / d (r < d) after the point, and the remainder.
RECURSIVE frac_bits(_, _, _, _)
frac_bits(r, d, k, f) ==
    IF k = 0 THEN [f |-> f, r |-> r]
    ELSE frac_bits((2 * r) % d, d, k - 1, 2 * f + (IF 2 * r >= d THEN 1 ELSE 0))

\* dx as f32 / dy as f32 (dx, dy i16, neither 0): [k, v], v the quotient
\* rounded to f32 and k its scale.
f32_div(dx, dy) ==
    LET n == Abs(dx)
        d == Abs(dy)
        k == IF n >= d THEN MantissaBits - bit_len(n \div d)
             ELSE MantissaBits - 1 + lead(n, d)
        q == frac_bits(n % d, d, k, 0)
        up == 2 * q.r > d \/ (2 * q.r = d /\ q.f % 2 = 1)
        g == q.f + (IF up THEN 1 ELSE 0)
    IN  [k |-> k,
         v |-> IF g = 2^k THEN F32((dx < 0) # (dy < 0), n \div d + 1, 0)
               ELSE F32((dx < 0) # (dy < 0), n \div d, g)]

\* a + b rounded to f32.
f32_add(k, a, b) ==
    IF a.neg = b.neg
    THEN LET fs == a.f + b.f
             r == f32_round(k, a.i + b.i + (IF fs >= 2^k THEN 1 ELSE 0), fs % 2^k)
         IN  F32(a.neg, r.i, r.f)
    ELSE LET a_big == a.i > b.i \/ (a.i = b.i /\ a.f >= b.f)
             big == IF a_big THEN a ELSE b
             small == IF a_big THEN b ELSE a
             borrow == IF big.f < small.f THEN 1 ELSE 0
             r == f32_round(k, big.i - small.i - borrow,
                            big.f + borrow * 2^k - small.f)
         IN  F32(big.neg /\ (r.i # 0 \/ r.f # 0), r.i, r.f)

f32_floor(v) == IF ~v.neg THEN v.i ELSE IF v.f = 0 THEN -v.i ELSE -(v.i + 1)
f32_ceil(v) == IF v.neg THEN -v.i ELSE IF v.f = 0 THEN v.i ELSE v.i + 1
\* f32 as i16: the cast saturates.
f32_as_i16(n) == Max(-(U16 \div 2), Min(U16 \div 2 - 1, n))

\* The rows of the general case of Line::draw: the loop runs while px != tx
\* and py != ty.  px and step_x are f32 values of scale k, tx is whole.
\* floor(min(px, prev_x)) is the smaller of the two floors, ceil(max) the
\* larger of the two ceilings.  A negative str_start turned usize asks
\* repeat for about 2^64 spaces, which panics in both builds.
RECURSIVE line_rows(_, _, _, _, _, _, _)
line_rows(k, px, tx, py, ty, step_x, symbol) ==
    IF ~(~(px.f = 0 /\ px.i = tx /\ (~px.neg \/ tx = 0)) /\ py # ty)
    THEN [ok |-> TRUE, lines |-> <<>>]
    ELSE LET prev_x == px
             nx == f32_add(k, px, step_x)
             str_start == f32_as_i16(Min(f32_floor(nx), f32_floor(prev_x)))
             str_end == f32_as_i16(Max(f32_ceil(nx), f32_ceil(prev_x)))
             str_len == str_end - str_start
         IN  IF str_start < 0 THEN [ok |-> FALSE, lines |-> <<>>]
             ELSE LET rest == line_rows(k, nx, tx, py + 1, ty, step_x, symbol)
                  IN  IF ~rest.ok THEN rest
                      ELSE [ok |-> TRUE,
                            lines |-> repeat(<<" ">>, str_start) \o repeat(<<symbol>>, str_len)
                                          \o <<"\n">> \o rest.lines]

\* Line::draw.  dx.abs() of -32768 panics in debug and stays
\* negative in release, where repeat then panics.
line_draw(build, p, start, end, symbol) ==
    LET sx == i16_sub(build, as_i16(end.x), as_i16(start.x))
        sy == i16_sub(build, as_i16(end.y), as_i16(start.y))
        dx == sx.v
        dy == sy.v
    IN  IF ~sx.ok \/ ~sy.ok THEN NoDraw
        ELSE IF dy = 0
        THEN (IF dx = -(U16 \div 2) THEN NoDraw
              ELSE [ok |-> TRUE,
                    stream |-> put_str(p, repeat(<<symbol>>, Abs(dx)),
                                       PVec2(Min(start.x, end.x), start.y))])
        ELSE IF dx = 0
        THEN (IF dy = -(U16 \div 2) THEN NoDraw
              ELSE [ok |-> TRUE,
                    stream |-> put_str(p, repeat(<<symbol, "\n">>, Abs(dy)),
                                       PVec2(start.x, Min(start.y, end.y)))])
        ELSE LET step_x == f32_div(dx, dy)
                 px == IF step_x.v.neg THEN end.x ELSE start.x
                 tx == IF step_x.v.neg THEN start.x ELSE end.x
                 rows == line_rows(step_x.k, F32(FALSE, px, 0), tx, Min(start.y, end.y),
                                   Max(end.y, start.y), step_x.v, symbol)
             IN  IF rows.ok
                 THEN [ok |-> TRUE,
                       stream |-> put_str_transparent(p, rows.lines,
                                      PVec2(start.x, Min(start.y, end.y)))]
                 ELSE NoDraw

\* Line::new(start, end, symbol).draw(p) for each <<start, end>> of lines, in
\* turn; a panic ends the sequence.
RECURSIVE lines_draw(_, _, _, _)
lines_draw(build, p, lines, symbol) ==
    IF lines = <<>> THEN [ok |-> TRUE, stream |-> <<>>]
    ELSE CHOOSE d \in {Then(first, lines_draw(build, p, rest, symbol)) :
                           first \in {line_draw(build, p, Head(lines)[1], Head(lines)[2], symbol)},
                           rest \in {Tail(lines)}} : TRUE

\* Rect::draw: the corners are u16 sums; the four lines top, bottom, left,
\* right are drawn in turn.
rect_draw(build, p, position, size, symbol) ==
    LET xr == u16_add(build, position.x, size.x)
        yb == u16_add(build, position.y, size.y)
        tl == position
        tr == PVec2(xr, position.y)
        bl == PVec2(position.x, yb)
        br == PVec2(xr, yb)
    IN  IF xr < 0 \/ yb < 0 THEN NoDraw
        ELSE lines_draw(build, p, <<<<tl, tr>>, <<bl, br>>, <<tl, bl>>, <<tr, br>>>>, symbol)

\* PVec2 + PVec2 on u16 fields.
pvec2_add(build, a, b) ==
    IF a.x + b.x < U16 /\ a.y + b.y < U16 THEN Ok(PVec2(a.x + b.x, a.y + b.y))
    ELSE IF build = "debug" THEN Panic
    ELSE Ok(PVec2((a.x + b.x) % U16, (a.y + b.y) % U16))

\* ViewBox{plot, position, size}.
ViewBox(p, position, size) == [plot |-> p, position |-> position, size |-> size]

vb_clamp(n, lower, upper) == Max(lower, Min(n, upper))

vb_clamp_point(point, x_min, x_max, y_min, y_max) ==
    PVec2(vb_clamp(point.x, x_min, x_max), vb_clamp(point.y, y_min, y_max))

vb_clamp_to_plot(vb, point) == vb_clamp_point(point, 0, vb.size.x, 0, vb.size.y)

vb_translate_to_plot(build, vb, point) ==
    LET r == pvec2_add(build, point, vb.position)
    IN  IF r.ok THEN Ok(vb_clamp_to_plot(vb, r.pt)) ELSE Panic

point_draw(p, position, symbol) == put(p, symbol, position)

point_draw_vb(build, vb, position, symbol) ==
    LET r == pvec2_add(build, position, vb.position)
    IN  IF r.ok THEN [ok |-> TRUE, stream |-> point_draw(vb.plot, r.pt, symbol)] ELSE NoDraw

line_draw_vb(build, vb, start, end, symbol) ==
    LET s == pvec2_add(build, start, vb.position)
        e == pvec2_add(build, end, vb.position)
    IN  IF s.ok /\ e.ok THEN line_draw(build, vb.plot, s.pt, e.pt, symbol) ELSE NoDraw

rect_draw_vb(build, vb, position, size, symbol) ==
    LET r == pvec2_add(build, position, vb.position)
    IN  IF r.ok THEN rect_draw(build, vb.plot, r.pt, size, symbol) ELSE NoDraw

\* ------------------------------------------------------------------- state
\* profile: the build the program was compiled as.  plot: the Plot value in
\* use.  term: the terminal (cells, cursor, saved
\* anchor, cells printed on by the last call).  before: the cells as the
\* last call found them.  calls: the number of calls made since Plot::new.
\* last: the last call and its arguments.  out: the stream it wrote.  result:
\* the point it returned, or its panic.
Call(op, sym, text, a, b, dom, f) ==
    [op |-> op, sym |-> sym, text |-> text, a |-> a, b |-> b, dom |-> dom, f |-> f]
NoDom == <<0, 0, 0, 0>>
NoF == <<0, 0>>
Origin == PVec2(0, 0)

\* The terminal as the program finds it: some prior content, the cursor at
\* the start of a row, nothing saved.
Screen(fill, row) ==
    [cells |-> [r \in Rows |-> [c \in Cols |-> fill]],
     cur |-> <<row, 0>>, saved |-> <<0, 0>>, written |-> {}]

\* The rows the cursor is on when the program starts: the top one and the
\* bottom one, where Plot::new scrolls the screen.
StartRows == {0, TermRows - 1}
\* Canvas sizes: u16, zero included.
Widths == 0..MaxW
Heights == 0..MaxH

Texts == UNION {[1..n -> TextChars] : n \in 0..MaxLen}
\* The points handed to put and to the coordinate functions: out of bounds on
\* the smaller canvases.
Points == {PVec2(x, y) : x \in 0..MaxW, y \in 0..MaxH}
\* The start points of the texts.
Starts == {PVec2(0, 0), PVec2(1, 1)}
\* The start points of the lines.
LineStarts == {PVec2(0, 0), PVec2(1, 0), PVec2(MaxW, 0)}
\* The end points of the lines.
Ends == {PVec2(0, 0), PVec2(1, 0), PVec2(0, 1), PVec2(MaxW, 0), PVec2(MaxW, MaxH)}
\* The rectangles: position and size.
Rects == {<<PVec2(0, 0), PVec2(MaxW, MaxH)>>, <<PVec2(0, 0), PVec2(1, 1)>>,
          <<PVec2(1, 1), PVec2(1, 0)>>, <<PVec2(1, 0), PVec2(0, 0)>>}

\* The state after Plot::new(width, height).
Init ==
    \E b \in Builds, w \in Widths, h \in Heights, fill \in Fills, row \in StartRows :
        /\ profile = b
        /\ plot = Plot(w, h)
        /\ term = Flush(Screen(fill, row), new(w, h))
        /\ before = Screen(fill, row).cells
        /\ calls = 0
        /\ last = Call("new", "", <<>>, PVec2(w, h), Origin, NoDom, NoF)
        /\ out = new(w, h)
        /\ result = Ok(Origin)

\* One call that writes: its stream is flushed to the terminal.  Every method
\* takes &self: any call may follow any other, up to MaxCalls calls in all.
\* A panic ends the program: no call follows it.
Emit(call, stream, res) ==
    /\ calls < MaxCalls
    /\ result # Panic
    /\ calls' = calls + 1
    /\ last' = call
    /\ out' = stream
    /\ before' = term.cells
    /\ term' = Flush(term, stream)
    /\ result' = res
    /\ UNCHANGED profile

\* One call that only computes a point: it writes nothing.
Compute(call, res) ==
    /\ Emit(call, <<>>, res)
    /\ UNCHANGED plot

Draw(call, stream, res) ==
    /\ Emit(call, stream, res)
    /\ UNCHANGED plot

Resize ==
    /\ calls < MaxCalls
    /\ \E w \in Widths, h \in Heights :
        /\ Emit(Call("resize", "", <<>>, PVec2(w, h), Origin, NoDom, NoF),
                resize(plot, w, h), Ok(Origin))
        /\ plot' = Plot(w, h)

Clear ==
    /\ Emit(Call("clear", "", <<>>, Origin, Origin, NoDom, NoF), clear(plot), Ok(Origin))
    /\ UNCHANGED plot

Finish ==
    /\ Emit(Call("finish", "", <<>>, Origin, Origin, NoDom, NoF), finish(plot), Ok(Origin))
    /\ UNCHANGED plot

Put ==
    /\ calls < MaxCalls
    /\ \E c \in Symbols, pt \in Points :
        Draw(Call("put", c, <<>>, pt, Origin, NoDom, NoF), put(plot, c, pt), Ok(Origin))

PutStr ==
    /\ calls < MaxCalls
    /\ \E s \in Texts, pt \in Starts :
        Draw(Call("put_str", "", s, pt, Origin, NoDom, NoF), put_str(plot, s, pt), Ok(Origin))

PutStrTransparent ==
    /\ calls < MaxCalls
    /\ \E s \in Texts, pt \in Starts :
        Draw(Call("put_str_transparent", "", s, pt, Origin, NoDom, NoF),
             put_str_transparent(plot, s, pt), Ok(Origin))

\* Point::new(position, symbol).draw(plot).
PointDraw ==
    /\ calls < MaxCalls
    /\ \E c \in Strokes, pt \in Points :
        Draw(Call("point_draw", c, <<>>, pt, Origin, NoDom, NoF),
             point_draw(plot, pt, c), Ok(Origin))

\* Line::new(start, end, symbol).draw(plot).
LineDraw ==
    /\ calls < MaxCalls
    /\ \E c \in Strokes, s \in LineStarts, e \in Ends :
        \E d \in {line_draw(profile, plot, s, e, c)} :
            Draw(Call("line_draw", c, <<>>, s, e, NoDom, NoF), d.stream,
                 IF d.ok THEN Ok(Origin) ELSE Panic)

\* Rect::new(position, size, symbol).draw(plot).
RectDraw ==
    /\ calls < MaxCalls
    /\ \E c \in Strokes, r \in Rects :
        \E d \in {rect_draw(profile, plot, r[1], r[2], c)} :
            Draw(Call("rect_draw", c, <<>>, r[1], r[2], NoDom, NoF), d.stream,
                 IF d.ok THEN Ok(Origin) ELSE Panic)

OriginBl ==
    /\ calls < MaxCalls
    /\ \E pt \in Points :
        Compute(Call("origin_bl", "", <<>>, pt, Origin, NoDom, NoF),
                origin_bl(profile, plot, pt.x, pt.y))

OriginBr ==
    /\ calls < MaxCalls
    /\ \E pt \in Points :
        Compute(Call("origin_br", "", <<>>, pt, Origin, NoDom, NoF),
                origin_br(profile, plot, pt.x, pt.y))

\* derive_point_dec(x / FracDen, y / FracDen).
DerivePointDec ==
    /\ calls < MaxCalls
    /\ \E x \in 0..FracDen, y \in 0..FracDen :
        Compute(Call("derive_point_dec", "", <<>>, Origin, Origin, NoDom, <<x, y>>),
                Ok(derive_point_dec(plot, x, y)))

\* The scaled view boxes and the points translated through them: position
\* and size in last.a and last.b, the domain in last.dom, the point in last.f.
SvbBoxes == {<<PVec2(0, 0), PVec2(2, 2)>>, <<PVec2(1, 2), PVec2(4, 3)>>}
SvbDomains == {<<lo, hi>> \in DomVals \X DomVals : lo < hi}

\* ScaledViewBox{position, size, x_min, x_max, y_min, y_max}.translate_to_plot
\* of the domain's minimum and of its maximum, the domain the same on both
\* axes.
SvbTranslate ==
    /\ calls < MaxCalls
    /\ \E box \in SvbBoxes, d \in SvbDomains, i \in 1..2 :
        Compute(Call("svb_translate_to_plot", "", <<>>, box[1], box[2],
                     <<d[1], d[2], d[1], d[2]>>, <<d[i], d[i]>>),
                svb_translate_to_plot(profile,
                    [position |-> box[1], size |-> box[2],
                     x_min |-> d[1], x_max |-> d[2], y_min |-> d[1], y_max |-> d[2]],
                    [x |-> d[i], y |-> d[i]]))

\* The view boxes shapes are drawn in: <<position.x, position.y, size.x, size.y>>
\* is kept in last.dom.  The points lie in and right of the boxes.
VbOrigins == {PVec2(0, 0), PVec2(1, 1)}
VbSizes == {PVec2(1, 1)}
VbPoints == {PVec2(0, 0), PVec2(1, 1), PVec2(MaxW, 0)}
VbDom(vb) == <<vb.position.x, vb.position.y, vb.size.x, vb.size.y>>

\* Point::new(position, symbol).draw_vb(viewbox).
PointDrawVb ==
    /\ calls < MaxCalls
    /\ \E c \in Symbols, pt \in VbPoints, o \in VbOrigins, sz \in VbSizes :
        LET vb == ViewBox(plot, o, sz)
        IN  \E d \in {point_draw_vb(profile, vb, pt, c)} :
                Draw(Call("point_draw_vb", c, <<>>, pt, Origin, VbDom(vb), NoF), d.stream,
                     IF d.ok THEN Ok(Origin) ELSE Panic)

\* Line::new(start, end, symbol).draw_vb(viewbox).
LineDrawVb ==
    /\ calls < MaxCalls
    /\ \E c \in Strokes, s \in {PVec2(0, 0), PVec2(1, 1)}, e \in VbPoints,
          o \in VbOrigins, sz \in VbSizes :
        LET vb == ViewBox(plot, o, sz)
        IN  \E d \in {line_draw_vb(profile, vb, s, e, c)} :
                Draw(Call("line_draw_vb", c, <<>>, s, e, VbDom(vb), NoF), d.stream,
                     IF d.ok THEN Ok(Origin) ELSE Panic)

\* Rect::new(position, size, symbol).draw_vb(viewbox).
RectDrawVb ==
    /\ calls < MaxCalls
    /\ \E c \in Strokes, pos \in {PVec2(0, 0)}, size \in {PVec2(1, 1), PVec2(MaxW, 1)},
          o \in VbOrigins, sz \in VbSizes :
        LET vb == ViewBox(plot, o, sz)
        IN  \E d \in {rect_draw_vb(profile, vb, pos, size, c)} :
                Draw(Call("rect_draw_vb", c, <<>>, pos, size, VbDom(vb), NoF), d.stream,
                     IF d.ok THEN Ok(Origin) ELSE Panic)

\* ViewBox::translate_to_plot(point).
VbTranslate ==
    /\ calls < MaxCalls
    /\ \E pt \in VbPoints, o \in VbOrigins, sz \in VbSizes :
        LET vb == ViewBox(plot, o, sz)
        IN  Compute(Call("vb_translate_to_plot", "", <<>>, pt, Origin, VbDom(vb), NoF),
                    vb_translate_to_plot(profile, vb, pt))

\* The program: Plot::new, then the calls on the canvas, the shapes and the
\* view boxes, any number of them in any order.
Next ==
    \/ Resize
    \/ Clear
    \/ Finish
    \/ Put
    \/ PutStr
    \/ PutStrTransparent
    \/ OriginBl
    \/ OriginBr
    \/ DerivePointDec
    \/ PointDraw
    \/ LineDraw
    \/ RectDraw
    \/ PointDrawVb
    \/ LineDrawVb
    \/ RectDrawVb
    \/ VbTranslate
    \/ SvbTranslate

Spec == Init /\ [][Next]_vars

\* ------------------------------------------------------------------ claims
InBounds(p, pt) == pt.x \in p.x_min..p.x_max /\ pt.y \in p.y_min..p.y_max
Writes == {"put", "put_str", "put_str_transparent"}
\* The terminal as the last call found it.
Pre == [term EXCEPT !.cells = before, !.written = {}]
\* The terminal row on which put at grid row y (column x) prints.
PutRow(x, y) ==
    LET w == Flush(Pre, put(plot, "#", PVec2(x, y))).written
    IN  (CHOOSE c \in w : TRUE)[1]
AnchorRow == term.saved[1]

\* C1: put, put_str and put_str_transparent each write, before any content,
\* exactly restore-cursor-to-anchor, move up (height - c.y), move right c.x
\* with c = clamp_to_plot(p); the prefix is written once per call (no second
\* restore, no second move up) and nothing is printed before it.
C1_PrefixOncePerCall ==
    last.op \in Writes =>
        LET c == clamp_to_plot(plot, last.a)
        IN  /\ Len(out) >= 3
            /\ SubSeq(out, 1, 3) = <<Restore, MoveUp(plot.height - c.y), MoveRight(c.x)>>
            /\ \A i \in 4..Len(out) : out[i].op \notin {"RestorePosition", "MoveUp"}

C1_Witness ==
    /\ last.op = "put_str_transparent"
    /\ last.a.y > plot.y_max /\ last.a.x \in 1..(plot.width - 1)
    /\ Len(split(last.text)) > 1
    /\ \E i \in 4..Len(out) : out[i].op = "Print" /\ out[i].ch = "a"

\* C2 as stated: the anchor is grid row 0 and rows increase upward: put at an
\* in-bounds point with y = 0 prints on the anchor's terminal row, and put at
\* a larger in-bounds y (same x) prints on a row strictly above.
C2_AnchorIsRowZero ==
    (last.op = "put" /\ InBounds(plot, last.a)) =>
        /\ last.a.y = 0 => \A w \in term.written : w[1] = AnchorRow
        /\ \A y \in plot.y_min..plot.y_max :
               y < last.a.y => \A w \in term.written : w[1] < PutRow(last.a.x, y)

\* C2, amended: grid rows increase downward, towards the anchor: put at an
\* in-bounds point (x, y) restores the cursor to the anchor and asks for a move
\* up by height - y rows: by height rows for y = 0, by strictly fewer rows for
\* a larger in-bounds y (same x).  For y < height, on a screen with at least
\* height - y rows above the anchor's, the character is printed exactly
\* height - y rows above the anchor's row: never on the anchor's row, and
\* strictly below the row printed for any smaller y.
C2_RowsGrowDownward ==
    (last.op = "put" /\ InBounds(plot, last.a)) =>
        /\ SubSeq(out, 1, 2) = <<Restore, MoveUp(plot.height - last.a.y)>>
        /\ \A y \in plot.y_min..plot.y_max :
               y < last.a.y => put(plot, last.sym, PVec2(last.a.x, y))[2].n > out[2].n
        /\ (last.a.y < plot.height /\ AnchorRow >= plot.height - last.a.y) =>
               /\ term.written # {}
               /\ \A w \in term.written :
                      /\ w[1] = AnchorRow - (plot.height - last.a.y)
                      /\ \A y \in plot.y_min..plot.y_max :
                             (y < last.a.y /\ AnchorRow >= plot.height - y)
                                 => w[1] > PutRow(last.a.x, y)

C2_Witness ==
    /\ last.op = "put" /\ InBounds(plot, last.a)
    /\ plot.height >= 2 /\ last.a.y = plot.height - 1 /\ last.a.x >= 1
    /\ AnchorRow >= plot.height
    /\ term.written = {<<AnchorRow - 1, last.a.x>>}
    /\ PutRow(last.a.x, 0) = AnchorRow - plot.height
    /\ PutRow(last.a.x, 0) < AnchorRow - 1

\* C3: over a canvas whose cells all hold a marker, put_str_transparent of a
\* text made only of spaces, at any start point, leaves every cell as it was
\* and prints on none.
C3_SpacesLeaveCanvas ==
    (/\ last.op = "put_str_transparent"
     /\ \A i \in 1..Len(last.text) : last.text[i] = " "
     /\ \A r \in Rows, c \in Cols : before[r][c] = ".") =>
        /\ term.cells = before
        /\ term.written = {}

C3_Witness ==
    /\ last.op = "put_str_transparent"
    /\ Len(last.text) >= 2 /\ \A i \in 1..Len(last.text) : last.text[i] = " "
    /\ \A r \in Rows, c \in Cols : before[r][c] = "."
    /\ InBounds(plot, last.a) /\ last.a.x + Len(last.text) <= plot.width
    /\ \E i \in 1..Len(out) : out[i].op = "Print"
    /\ term.cells = before

\* C4: for a text with no whitespace within its lines (line breaks only
\* between them), put_str_transparent writes the stream that put_str writes
\* for the same text and start, and leaves the cells put_str leaves.
C4_NoWhitespaceAsPutStr ==
    (/\ last.op = "put_str_transparent"
     /\ \A i \in 1..Len(last.text) : last.text[i] # " ") =>
        /\ out = put_str(plot, last.text, last.a)
        /\ term.cells = Flush(Pre, put_str(plot, last.text, last.a)).cells
        /\ term.written = Flush(Pre, put_str(plot, last.text, last.a)).written

C4_Witness ==
    /\ last.op = "put_str_transparent"
    /\ last.text = <<"\n", "a">>
    /\ InBounds(plot, last.a) /\ last.a.x \in 1..(plot.width - 1)
    /\ \E w \in term.written : term.cells[w[1]][w[2]] = "a"
    /\ out = put_str(plot, last.text, last.a)
\* The terminal cell of a grid point: row height is the anchor's row.
GridCell(x, y) == <<AnchorRow - plot.height + y, x>>
\* The cells of an axis-aligned line as the specification describes it: |dx|
\* cells from min x in row start.y, or |dy| cells from min y in column start.x.
LineCells(s, e) ==
    IF s.y = e.y
    THEN {GridCell(x, s.y) : x \in Min(s.x, e.x)..(Max(s.x, e.x) - 1)}
    ELSE {GridCell(s.x, y) : y \in Min(s.y, e.y)..(Max(s.y, e.y) - 1)}

\* The cells of a general line as the specification describes it: px starts
\* at the x of the endpoint on row min y and advances by dx/dy per row towards
\* the other endpoint's x; the k-th row holds the columns from
\* floor(min(px_prev, px)) up to ceil(max(px_prev, px)), the range's width.
GeneralLineCells(s, e) ==
    LET lo == IF s.y < e.y THEN s ELSE e
        hi == IF s.y < e.y THEN e ELSE s
        n == hi.y - lo.y
        px(k) == lo.x * n + k * (hi.x - lo.x)
    IN  UNION {{GridCell(x, lo.y + k - 1) :
                    x \in (Min(px(k - 1), px(k)) \div n)
                              ..(-((-Max(px(k - 1), px(k))) \div n) - 1)} : k \in 1..n}

\* C5: a non-axis-aligned line inside the canvas is drawn (the call returns),
\* on exactly |dy| rows beginning at row min(start.y, end.y); each row holds
\* the symbol on exactly the columns of its range, and every column printed
\* on lies within [min(start.x, end.x), max(start.x, end.x)].
C5_GeneralLine ==
    (/\ last.op = "line_draw"
     /\ last.a.x # last.b.x /\ last.a.y # last.b.y
     /\ InBounds(plot, last.a) /\ InBounds(plot, last.b)) =>
        /\ result.ok
        /\ {w[1] : w \in term.written}
               = {GridCell(0, y)[1] : y \in Min(last.a.y, last.b.y)..(Max(last.a.y, last.b.y) - 1)}
        /\ term.written = GeneralLineCells(last.a, last.b)
        /\ \A w \in term.written :
               w[2] \in Min(last.a.x, last.b.x)..Max(last.a.x, last.b.x)

\* C6: an axis-aligned line of non-zero length inside the canvas prints the
\* symbol on exactly its n consecutive cells and on no other cell: |dx| cells
\* of row start.y from column min x, or |dy| cells of column start.x from row
\* min y.
C6_AxisAlignedLine ==
    (/\ last.op = "line_draw"
     /\ (last.a.x = last.b.x) # (last.a.y = last.b.y)
     /\ InBounds(plot, last.a) /\ InBounds(plot, last.b)) =>
        /\ result.ok
        /\ term.written = LineCells(last.a, last.b)
        /\ \A w \in term.written : term.cells[w[1]][w[2]] = last.sym

\* C7: a rectangle of positive width and height that fits in the canvas
\* prints on exactly the cells of its four edge lines, and on no cell strictly
\* inside it.
C7_RectEdges ==
    LET tl == last.a
        tr == PVec2(last.a.x + last.b.x, last.a.y)
        bl == PVec2(last.a.x, last.a.y + last.b.y)
        br == PVec2(last.a.x + last.b.x, last.a.y + last.b.y)
    IN  (/\ last.op = "rect_draw"
         /\ last.b.x > 0 /\ last.b.y > 0
         /\ InBounds(plot, tl) /\ InBounds(plot, br)) =>
            /\ term.written = LineCells(tl, tr) \cup LineCells(bl, br)
                                  \cup LineCells(tl, bl) \cup LineCells(tr, br)
            /\ \A x \in (tl.x + 1)..(br.x - 1), y \in (tl.y + 1)..(br.y - 1) :
                   GridCell(x, y) \notin term.written

\* C8: with x_min < x_max and y_min < y_max, translate_to_plot maps the
\* domain minimum to the viewbox origin and the domain maximum to
\* origin + size.
C8_DomainEndpoints ==
    last.op = "svb_translate_to_plot" =>
        /\ last.f = <<last.dom[1], last.dom[3]>> => result = Ok(last.a)
        /\ last.f = <<last.dom[2], last.dom[4]>>
               => result = Ok(PVec2(last.a.x + last.b.x, last.a.y + last.b.y))

\* round(n / FracDen * k), half away from zero.
RoundScaled(n, k) == (2 * n * k + FracDen) \div (2 * FracDen)

\* C9: for fx, fy in [0, 1], derive_point_dec(fx, fy) is the cell
\* (round(fx * width), round(fy * height)) clamped to the bounds, so that
\* (1, 1) is the cell (width, height).
C9_DerivePointScaled ==
    (/\ last.op = "derive_point_dec"
     /\ last.f[1] <= FracDen /\ last.f[2] <= FracDen) =>
        result = Ok(clamp_to_plot(plot, PVec2(RoundScaled(last.f[1], plot.width),
                                              RoundScaled(last.f[2], plot.height))))

\* The value of lo..hi nearest to the integer v.
Nearest(v, lo, hi) == IF v < lo THEN lo ELSE IF v > hi THEN hi ELSE v

\* C10: out-of-range coordinates are never an error: put uses the nearest
\* in-bounds point, and origin_bl(x, y) and origin_br(x, y) return, without
\* failing, the in-bounds point nearest to (x, height - y) and to
\* (width - x, height - y).
C10_OutOfRangeClamped ==
    /\ last.op = "put" =>
           out = <<Restore,
                   MoveUp(plot.height - Nearest(last.a.y, plot.y_min, plot.y_max)),
                   MoveRight(Nearest(last.a.x, plot.x_min, plot.x_max)),
                   Ch(last.sym)>>
    /\ last.op = "origin_bl" =>
           result = Ok(PVec2(Nearest(last.a.x, plot.x_min, plot.x_max),
                             Nearest(plot.height - last.a.y, plot.y_min, plot.y_max)))
    /\ last.op = "origin_br" =>
           result = Ok(PVec2(Nearest(plot.width - last.a.x, plot.x_min, plot.x_max),
                             Nearest(plot.height - last.a.y, plot.y_min, plot.y_max)))

\* The cells of the view box kept in last.dom: the sub-rectangle
\* [origin.x, origin.x + size.x] x [origin.y, origin.y + size.y] of the canvas.
VbCells ==
    {GridCell(x, y) : x \in last.dom[1]..(last.dom[1] + last.dom[3]),
                      y \in last.dom[2]..(last.dom[2] + last.dom[4])}

\* C11: every cell written by a Point's, Line's or Rect's draw_vb lies inside
\* the view box's sub-rectangle [origin.x, origin.x + size.x] x
\* [origin.y, origin.y + size.y] of the parent canvas.
C11_ViewBoxContains ==
    last.op \in {"point_draw_vb", "line_draw_vb", "rect_draw_vb"} =>
        term.written \subseteq VbCells

\* C12: Line.draw of a zero-length line (start = end = p, p in bounds) is a
\* single-point placement: exactly one cell, p, receives the symbol.
C12_ZeroLengthLine ==
    (last.op = "line_draw" /\ last.a = last.b /\ InBounds(plot, last.a)) =>
        /\ result.ok
        /\ term.written = {GridCell(last.a.x, last.a.y)}
        /\ \A w \in term.written : term.cells[w[1]][w[2]] = last.sym

\* The calls that leave the anchor and the canvas alone.
FrameOps == {"clear", "put", "put_str", "put_str_transparent", "finish"}
Saves(stream) == \E i \in 1..Len(stream) : stream[i].op = "SavePosition"

\* C13: a clear, put, put_str, put_str_transparent or finish call emits no
\* save-cursor command, leaves the saved anchor position where it was and
\* leaves the canvas's width, height and bounds unchanged; a call that saves
\* a cursor position is a create or a resize.
C13_AnchorFrame ==
    [][/\ last'.op \in FrameOps =>
              /\ ~Saves(out')
              /\ term'.saved = term.saved
              /\ plot' = plot
       /\ Saves(out') => last'.op \in {"new", "resize"}]_vars

\* A clear that follows a put (the put's symbol is on the cells the clear
\* found) with the anchor still on the row create saved.
C13_Witness ==
    /\ last.op = "clear"
    /\ \E r \in Rows, c \in Cols : before[r][c] \in Symbols
    /\ ~Saves(out)
    /\ term.saved = <<plot.height, 0>>

\* The terminal cells put can address on the canvas: the cells put prints
\* on for the points of the clip bounds.
Addressable ==
    UNION {Flush(Pre, put(plot, "#", PVec2(x, y))).written :
               x \in plot.x_min..plot.x_max, y \in plot.y_min..plot.y_max}

\* C14: after put calls followed by clear(), every terminal cell that put can
\* address on this canvas is blank.  Stated for a screen that held nothing
\* but the puts' symbols when clear() was called.
C14_ClearCoversAddressable ==
    (/\ last.op = "clear"
     /\ \E r \in Rows, c \in Cols : before[r][c] \in Symbols
     /\ \A r \in Rows, c \in Cols : before[r][c] \in Symbols \cup {" "}) =>
        \A w \in Addressable : term.cells[w[1]][w[2]] = " "

====
